---- MODULE Spec2Model ----
(***************************************************************************)
(* A model of pho's core (src/pho.c): the circular list of PhoImage        *)
(* records, the single global pixbuf gImage, ScaleAndRotate / RotateImage, *)
(* the navigation routines, ReallyDelete and the slideshow timer.          *)
(*                                                                         *)
(* Every C routine is an operator from a machine record m (the globals and *)
(* the heap) to the machine record after the call; an action of the model  *)
(* is one event of the gtk main loop and runs its handler to completion.   *)
(***************************************************************************)
EXTENDS Integers, FiniteSets, Sequences, TLC

\* ------------------------------------------------------------- bounds
\* The longest image list the model builds.
MaxRecs == 3
\* The longest list of the slideshow specification.
MaxSlideRecs == 2
\* The longest list of the transform specification.
MaxScaleRecs == 2
\* The largest width and height of the buffers the pixel specification
\* rotates, and the number of rotations it makes in a row.
MaxSide == 3
MaxTurns == 2
\* The largest true width and height the target specification draws.
MaxTrue == 22

\* ------------------------------------------------ program constants
\* The scale and display modes are enumerators of pho.h; only their
\* identity matters, so each is modelled by its name.
PHO_SCALE_NORMAL == "PHO_SCALE_NORMAL"
PHO_SCALE_FULLSCREEN == "PHO_SCALE_FULLSCREEN"
PHO_SCALE_FULLSIZE == "PHO_SCALE_FULLSIZE"
PHO_SCALE_IMG_RATIO == "PHO_SCALE_IMG_RATIO"
PHO_SCALE_SCREEN_RATIO == "PHO_SCALE_SCREEN_RATIO"
PHO_DISPLAY_NORMAL == "PHO_DISPLAY_NORMAL"
PHO_DISPLAY_PRESENTATION == "PHO_DISPLAY_PRESENTATION"
NORMAL_SCALE_SLOP == 5
FULLSCREEN_SCALE_SLOP == 20

\* ----------------------------------------------------- C arithmetic
\* C's % truncates towards zero: the result has the sign of the dividend.
CMod(a, b) == IF a >= 0 THEN a % b ELSE -((-a) % b)

Abs(a) == IF a < 0 THEN -a ELSE a

\* The triples <<a, b, c>> with a, b, c in 1..40 for which the IEEE double
\* product ((double)a / b) * c is just below the exact quotient a*c/b, so
\* that the conversion to int gives one less than the exact value; and
\* the one such triple among those of the photographs of TargetExamples.
FloatShort ==
    { <<900, 1704, 1704>>,
      <<13, 3, 27>>, <<13, 23, 23>>, <<15, 11, 11>>, <<15, 11, 22>>,
      <<15, 13, 13>>, <<15, 13, 26>>, <<15, 13, 39>>, <<15, 22, 22>>,
      <<15, 26, 26>>, <<17, 7, 21>>, <<23, 5, 25>>, <<26, 3, 27>>,
      <<26, 6, 27>>, <<26, 23, 23>>, <<29, 25, 25>>, <<30, 11, 11>>,
      <<30, 11, 22>>, <<30, 13, 13>>, <<30, 13, 26>>, <<30, 13, 39>>,
      <<30, 22, 11>>, <<30, 22, 22>>, <<30, 26, 13>>, <<30, 26, 26>>,
      <<30, 26, 39>>, <<31, 29, 29>>, <<31, 39, 39>>, <<34, 7, 21>>,
      <<34, 14, 21>>, <<37, 9, 27>>, <<39, 9, 27>>, <<39, 37, 37>> }

\* (int)(((double)a / b) * c) for a >= 0, b > 0, c >= 0.
RatioTimes(a, b, c) ==
    IF <<a, b, c>> \in FloatShort THEN ((a * c) \div b) - 1
    ELSE (a * c) \div b

\* (int)(w * gScaleRatio); the ratio is a power of two <<num, den>>, for
\* which the double product is exact.
TimesScaleRatio(w, r) == (w * r[1]) \div r[2]

\* ------------------------------------------------------- the heap
Recs == 1..MaxRecs

\* calloc'ed PhoImage (NewPhoImage): every field zero.
NewPhoImage ==
    [next |-> 0, prev |-> 0, trueWidth |-> 0, trueHeight |-> 0,
     curWidth |-> 0, curHeight |-> 0, curRot |-> 0, exifRot |-> 0,
     freed |-> FALSE]

\* gImage == 0; gdk_pixbuf_get_width/height of it answer -1.
NullPixbuf == [null |-> TRUE, width |-> -1, height |-> -1, released |-> FALSE]

Pixbuf(w, h) == [null |-> FALSE, width |-> w, height |-> h, released |-> FALSE]

\* gdk_pixbuf_unref(gImage): one live buffer less; releasing a buffer that
\* was released before is undefined.
Unref(m) ==
    [m EXCEPT !.live = IF m.gImage.released THEN @ ELSE @ - 1,
              !.ub = @ \/ m.gImage.released,
              !.gImage.released = TRUE]

\* One allocation attempt of a scale or a rotation: the failAt-th attempt
\* of the event fails.
AllocFails(m) == m.nalloc + 1 = m.failAt

CountAlloc(m) == [m EXCEPT !.nalloc = @ + 1]

\* ------------------------------------------------ LoadImageFromFile
\* gdk_pixbuf_new_from_file: the file decodes when it is still on disk and
\* is a readable image.
Decodes(m, i) == m.files[i].exists /\ m.files[i].ok

\* A variant of FreeCurrent that drops the reference without releasing
\* the buffer.
FreeCurrentLeaking(m) == [m EXCEPT !.gImage = NullPixbuf]

\* if (gImage) { gdk_pixbuf_unref(gImage); gImage = 0; }
FreeCurrent(m) ==
    IF m.gImage.null THEN m ELSE [Unref(m) EXCEPT !.gImage = NullPixbuf]

LoadImageFromFile(m, i) ==
    LET m1 == FreeCurrent(m)
    IN  IF ~Decodes(m1, i)
        THEN [m1 EXCEPT !.gImage = NullPixbuf, !.ret = -1]
        ELSE LET f == m1.files[i]
                 first == m1.img[i].trueWidth = 0 \/ m1.img[i].trueHeight = 0
             IN  [m1 EXCEPT
                    !.gImage = Pixbuf(f.width, f.height),
                    !.live = @ + 1,
                    !.img[i].curWidth = f.width,
                    !.img[i].curHeight = f.height,
                    !.img[i].trueWidth = IF first THEN f.width ELSE @,
                    !.img[i].trueHeight = IF first THEN f.height ELSE @,
                    !.img[i].exifRot = IF first THEN f.exif ELSE @,
                    !.ret = 0]

\* ------------------------------------------------------ RotateImage
\* A variant of NewRot that stores the turn instead of adding it.
NewRotOverwriting(curRot, degrees) == CMod(degrees + 360, 360)

\* img->curRot = (img->curRot + degrees + 360) % 360
NewRot(curRot, degrees) == CMod(curRot + degrees + 360, 360)

\* A variant of NewTrue that leaves trueWidth and trueHeight as they are.
NewTrueKept(img, swap) == <<img.trueWidth, img.trueHeight>>

\* newTrueWidth, newTrueHeight: exchanged by a quarter turn.
NewTrue(img, swap) ==
    IF swap THEN <<img.trueHeight, img.trueWidth>>
    ELSE <<img.trueWidth, img.trueHeight>>

RotateImage(m, i, degrees0) ==
    LET img == m.img[i]
        degrees == CMod(degrees0 + 360, 360)
        swap == degrees = 90 \/ degrees = 270
        newWidth == IF swap THEN img.curHeight ELSE img.curWidth
        newHeight == IF swap THEN img.curWidth ELSE img.curHeight
        newTrueWidth == NewTrue(img, swap)[1]
        newTrueHeight == NewTrue(img, swap)[2]
        \* gdk_pixbuf_new answers NULL for a width or height below 1
        noBuffer == newWidth < 1 \/ newHeight < 1
        m1 == IF noBuffer THEN m ELSE CountAlloc(m)
        \* the loops read oldpixels at every x < curWidth, y < curHeight
        outOfBounds == img.curWidth > m.gImage.width
                       \/ img.curHeight > m.gImage.height
    IN  IF m.gImage.null THEN [m EXCEPT !.ret = 1, !.rotErr = TRUE]
        ELSE IF degrees = 0 THEN [m EXCEPT !.ret = 0]
        ELSE IF noBuffer \/ AllocFails(m)
        THEN [m1 EXCEPT !.ret = 1, !.rotErr = TRUE]
        ELSE IF degrees \notin {90, 180, 270}
        THEN \* "Illegal rotation value": newImage is not released
             [m1 EXCEPT !.ret = 1, !.rotErr = TRUE, !.live = @ + 1]
        ELSE [Unref([m1 EXCEPT !.live = @ + 1]) EXCEPT
                !.ub = @ \/ outOfBounds,
                !.img[i].curWidth = newWidth,
                !.img[i].curHeight = newHeight,
                !.img[i].trueWidth = newTrueWidth,
                !.img[i].trueHeight = newTrueHeight,
                !.img[i].curRot = NewRot(img.curRot, degrees),
                !.gImage = Pixbuf(newWidth, newHeight),
                !.nrot = @ + 1,
                !.ret = 0]

\* ----------------------------------------- RotateImage: the pixels
\* gdk-pixbuf pads the rows of a buffer to a multiple of four bytes.
Rowstride(width, nchannels) == ((width * nchannels + 3) \div 4) * 4

\* The byte of channel i of the pixel at (x, y).
Offset(x, y, i, rowstride, nchannels) == y * rowstride + x * nchannels + i

\* The loops visit x, then y, then i in increasing order.
WrittenAfter(p, q) ==
    \/ p[1] > q[1]
    \/ p[1] = q[1] /\ p[2] > q[2]
    \/ p[1] = q[1] /\ p[2] = q[2] /\ p[3] >= q[3]

\* A variant of NewPosition whose quarter turn forgets to mirror.
NewPositionUnmirrored(x, y, curWidth, curHeight, degrees) ==
    IF degrees = 90 THEN <<y, x>>
    ELSE IF degrees = 270 THEN <<y, curWidth - x - 1>>
    ELSE <<curWidth - x - 1, curHeight - y - 1>>

\* <<newx, newy>> of the switch on degrees.
NewPosition(x, y, curWidth, curHeight, degrees) ==
    IF degrees = 90 THEN <<curHeight - y - 1, x>>
    ELSE IF degrees = 270 THEN <<y, curWidth - x - 1>>
    ELSE <<curWidth - x - 1, curHeight - y - 1>>

\* The bytes of the buffer gdk_pixbuf_new answers, once the loops have
\* run: a byte that was written holds what was written to it last, a byte
\* that was not written holds 0 here (it is not initialised).
RotatedPixels(b, newWidth, newHeight, degrees) ==
    LET sources == (0..(b.width - 1)) \X (0..(b.height - 1))
                     \X (0..(b.nchannels - 1))
        target(p) ==
            LET n == NewPosition(p[1], p[2], b.width, b.height, degrees)
            IN  Offset(n[1], n[2], p[3],
                       Rowstride(newWidth, b.nchannels), b.nchannels)
    IN  [o \in 0..(newHeight * Rowstride(newWidth, b.nchannels) - 1) |->
           LET written == {p \in sources : target(p) = o}
           IN  IF written = {} THEN 0
               ELSE LET last == CHOOSE p \in written :
                                   \A q \in written : WrittenAfter(p, q)
                    IN  b.pixels[Offset(last[1], last[2], last[3],
                                        b.rowstride, b.nchannels)]]

\* RotateImage on the pixels of a buffer whose width and height are the
\* record's curWidth and curHeight.
RotatePixels(b, degrees0) ==
    LET degrees == CMod(degrees0 + 360, 360)
        swap == degrees = 90 \/ degrees = 270
        newWidth == IF swap THEN b.height ELSE b.width
        newHeight == IF swap THEN b.width ELSE b.height
    IN  IF degrees = 0 THEN b
        ELSE [width |-> newWidth, height |-> newHeight,
              nchannels |-> b.nchannels,
              rowstride |-> Rowstride(newWidth, b.nchannels),
              pixels |-> RotatedPixels(b, newWidth, newHeight, degrees)]

\* ------------------------------------------------------- ScaleToFit
\* xratio > yratio, for xratio = max_width / w and yratio = max_height / h
\* (a division by zero gives +infinity).
XRatioGreater(w, h, max_width, max_height) ==
    IF w = 0 THEN h # 0
    ELSE IF h = 0 THEN FALSE
    ELSE max_width * h > max_height * w

ScaleToFit(w, h, max_width, max_height) ==
    IF w = 0 /\ h = 0 THEN <<0, 0>>
    ELSE IF XRatioGreater(w, h, max_width, max_height)
    THEN <<RatioTimes(max_height, h, w), RatioTimes(max_height, h, h)>>
    ELSE <<RatioTimes(max_width, w, w), RatioTimes(max_width, w, h)>>

\* ------------------------------------ ScaleAndRotate: the target size
\* The five branches on gScaleMode. The answer is the target size in the
\* frame after the rotation, whether the mode was unknown, and whether a
\* NaN was converted to int (FullScreen with true dimensions of zero).
SnapToCurrent(w, h, cur_width, cur_height) ==
    IF Abs(cur_width - w) + Abs(cur_height - h) < NORMAL_SCALE_SLOP
    THEN <<cur_width, cur_height>>
    ELSE <<w, h>>

TargetSize(m, true_width, true_height, cur_width, cur_height) ==
    IF m.mode = PHO_SCALE_FULLSIZE
    THEN [w |-> true_width, h |-> true_height, bad |-> FALSE, nan |-> FALSE]
    ELSE IF m.mode = PHO_SCALE_NORMAL \/ m.mode = PHO_SCALE_SCREEN_RATIO
    THEN LET fit == IF true_width > m.monW \/ true_height > m.monH
                    THEN ScaleToFit(true_width, true_height, m.monW, m.monH)
                    ELSE <<true_width, true_height>>
             t == SnapToCurrent(TimesScaleRatio(fit[1], m.ratio),
                                TimesScaleRatio(fit[2], m.ratio),
                                cur_width, cur_height)
         IN  [w |-> t[1], h |-> t[2], bad |-> FALSE, nan |-> FALSE]
    ELSE IF m.mode = PHO_SCALE_IMG_RATIO
    THEN LET t == SnapToCurrent(TimesScaleRatio(true_width, m.ratio),
                                TimesScaleRatio(true_height, m.ratio),
                                cur_width, cur_height)
         IN  [w |-> t[1], h |-> t[2], bad |-> FALSE, nan |-> FALSE]
    ELSE IF m.mode = PHO_SCALE_FULLSCREEN
    THEN LET screenwidth == IF m.display = PHO_DISPLAY_PRESENTATION
                            THEN m.winW ELSE m.monW
             screenheight == IF m.display = PHO_DISPLAY_PRESENTATION
                             THEN m.winH ELSE m.monH
         IN  IF true_width = 0 \/ true_height = 0
             THEN [w |-> m.nanInt, h |-> m.nanInt, bad |-> FALSE, nan |-> TRUE]
             ELSE IF XRatioGreater(true_width, true_height,
                                   screenwidth, screenheight)
             THEN [w |-> RatioTimes(screenheight, true_height, true_width),
                   h |-> RatioTimes(screenheight, true_height, true_height),
                   bad |-> FALSE, nan |-> FALSE]
             ELSE [w |-> RatioTimes(screenwidth, true_width, true_width),
                   h |-> RatioTimes(screenwidth, true_width, true_height),
                   bad |-> FALSE, nan |-> FALSE]
    ELSE [w |-> cur_width, h |-> cur_height, bad |-> TRUE, nan |-> FALSE]

\* --------------------------------------------------- ScaleAndRotate
\* ScaleAndRotate is modelled phase by phase. A frame holds the machine
\* m, the record i and the locals of the routine; done records the early
\* return.
\*
\* The declarations and the first-time load: the locals are read before
\* the load.
ScaleAndRotateLocals(m, i, degrees0) ==
    [m |-> [(IF m.img[i].trueWidth = 0 \/ m.img[i].trueHeight = 0
             THEN LoadImageFromFile(m, i) ELSE m) EXCEPT !.scaled = TRUE],
     i |-> i,
     degrees |-> CMod(degrees0 + 360, 360),
     aspect_changing |-> CMod(CMod(degrees0 + 360, 360), 180) # 0,
     true_width |-> m.img[i].trueWidth,
     true_height |-> m.img[i].trueHeight,
     cur_width |-> m.img[i].curWidth,
     cur_height |-> m.img[i].curHeight,
     new_width |-> 0, new_height |-> 0,
     unrot_new_width |-> 0, unrot_new_height |-> 0,
     done |-> FALSE]

\* A variant of ScaleAndRotateSwap that leaves the locals as they are.
ScaleAndRotateNoSwap(s) == s

\* if (aspect_changing) SWAP ...
ScaleAndRotateSwap(s) ==
    IF s.aspect_changing
    THEN [s EXCEPT !.true_width = s.true_height,
                   !.true_height = s.true_width,
                   !.cur_width = s.cur_height,
                   !.cur_height = s.cur_width]
    ELSE s

SetTarget(s, t) ==
    [s EXCEPT !.new_width = t.w, !.new_height = t.h,
              !.m.badMode = @ \/ t.bad, !.m.ub = @ \/ t.nan]

\* The branches on gScaleMode.
ScaleAndRotateTarget(s) ==
    SetTarget(s, TargetSize(s.m, s.true_width, s.true_height,
                            s.cur_width, s.cur_height))

\* The locals after the reload, from the buffer LoadImageFromFile left
\* (the width and height of no buffer are -1).
ScaleAndRotateReloaded(s) ==
    LET aspect_changing == CMod(s.degrees + 360, 180) # 0
        w == IF aspect_changing THEN s.m.gImage.height ELSE s.m.gImage.width
        h == IF aspect_changing THEN s.m.gImage.width ELSE s.m.gImage.height
    IN  [s EXCEPT !.aspect_changing = aspect_changing,
                  !.cur_width = w, !.true_width = w,
                  !.cur_height = h, !.true_height = h,
                  !.m.img[s.i].trueWidth = w,
                  !.m.img[s.i].trueHeight = h,
                  !.m.reloaded = TRUE]

\* A variant of ScaleAndRotateReload that keeps the rotation asked for,
\* without the rotation the record had.
ScaleAndRotateReloadRelative(s) ==
    IF (s.new_width > s.cur_width \/ s.new_height > s.cur_height)
       /\ (s.cur_width < s.true_width /\ s.cur_height < s.true_height)
    THEN ScaleAndRotateReloaded(
           [s EXCEPT
              !.m = LoadImageFromFile([s.m EXCEPT !.img[s.i].curRot = 0],
                                      s.i)])
    ELSE s

\* Getting bigger: reload.
ScaleAndRotateReload(s) ==
    IF (s.new_width > s.cur_width \/ s.new_height > s.cur_height)
       /\ (s.cur_width < s.true_width /\ s.cur_height < s.true_height)
    THEN ScaleAndRotateReloaded(
           [s EXCEPT
              !.degrees = CMod(s.degrees + s.m.img[s.i].curRot + 360, 360),
              !.m = LoadImageFromFile([s.m EXCEPT !.img[s.i].curRot = 0],
                                      s.i)])
    ELSE s

\* Scaling up: rotate first; otherwise the target in the frame before the
\* rotation.
ScaleAndRotateFirst(s) ==
    IF s.degrees # 0
       /\ (s.new_width > s.cur_width \/ s.new_height > s.cur_height)
    THEN [s EXCEPT !.m = [RotateImage(s.m, s.i, s.degrees) EXCEPT
                            !.rotFirst = TRUE],
                   !.degrees = 0,
                   !.unrot_new_width = s.new_width,
                   !.unrot_new_height = s.new_height]
    ELSE IF s.aspect_changing
    THEN [s EXCEPT !.unrot_new_height = s.new_width,
                   !.unrot_new_width = s.new_height]
    ELSE [s EXCEPT !.unrot_new_width = s.new_width,
                   !.unrot_new_height = s.new_height]

\* gdk_pixbuf_scale_simple answers NULL without allocating for a NULL
\* source or a size below 1.
ScaleRefused(s) ==
    s.m.gImage.null \/ s.unrot_new_width < 1 \/ s.unrot_new_height < 1

\* The scaling; when it fails the routine returns.
ScaleAndRotateScale(s) ==
    IF s.unrot_new_width # s.m.img[s.i].curWidth
       \/ s.unrot_new_height # s.m.img[s.i].curHeight
    THEN IF ScaleRefused(s)
         THEN [s EXCEPT !.m.scaleErr = TRUE, !.done = TRUE]
         ELSE IF AllocFails(s.m)
         THEN [s EXCEPT !.m = [CountAlloc(s.m) EXCEPT !.scaleErr = TRUE],
                        !.done = TRUE]
         ELSE [s EXCEPT
                 !.m = [Unref(CountAlloc(s.m)) EXCEPT
                          !.gImage = Pixbuf(s.unrot_new_width,
                                            s.unrot_new_height),
                          !.live = @ + 1],
                 !.cur_width = s.unrot_new_width,
                 !.cur_height = s.unrot_new_height]
    ELSE s

RotateLast(m, i, degrees) ==
    IF degrees # 0 THEN RotateImage(m, i, degrees) ELSE m

\* img->curWidth = cur_width; img->curHeight = cur_height; and the
\* rotation, if it was not done before.
ScaleAndRotateFinish(s) ==
    IF s.done THEN s.m
    ELSE RotateLast([s.m EXCEPT !.img[s.i].curWidth = s.cur_width,
                                !.img[s.i].curHeight = s.cur_height],
                    s.i, s.degrees)

ScaleAndRotate(m, i, degrees0) ==
    ScaleAndRotateFinish(
      ScaleAndRotateScale(
        ScaleAndRotateFirst(
          ScaleAndRotateReload(
            ScaleAndRotateTarget(
              ScaleAndRotateSwap(
                ScaleAndRotateLocals(m, i, degrees0)))))))

\* ------------------------------------------------------- ShowImage
\* A variant of ArmTimer that does not look at gPendingTimeout.
ArmTimerAlways(m) ==
    IF m.delay > 0
    THEN [m EXCEPT !.pending = 1, !.timeouts = @ + 1, !.armed = TRUE,
                   !.ret = 0]
    ELSE [m EXCEPT !.ret = 0]

\* g_timeout_add answers the id of the new source, which is never 0.
ArmTimer(m) ==
    IF m.delay > 0 /\ m.pending = 0
       /\ (m.img[m.cur].next # 0 \/ m.img[m.cur].next # m.first)
    THEN [m EXCEPT !.pending = 1, !.timeouts = @ + 1, !.armed = TRUE,
                   !.ret = 0]
    ELSE [m EXCEPT !.ret = 0]

ShowImage(m) == ArmTimer(ScaleAndRotate(m, m.cur, 0))

\* ---------------------------------------------- LoadImageAndRotate
\* After e = LoadImageFromFile(img): the rotation to the EXIF rotation
\* or to the saved one.
\* A variant of LoadedAndRotate that rotates to the EXIF rotation at every
\* load of a file that has one.
LoadedAndRotateHinted(m, i, rot, firsttime) ==
    IF m.ret # 0 THEN m
    ELSE [ScaleAndRotate(m, m.cur,
                         IF m.img[i].exifRot # 0
                         THEN m.img[i].exifRot ELSE rot)
            EXCEPT !.ret = 0]

LoadedAndRotate(m, i, rot, firsttime) ==
    IF m.ret # 0 THEN m
    ELSE [ScaleAndRotate(m, m.cur,
                         IF firsttime /\ m.img[i].exifRot # 0
                         THEN m.img[i].exifRot ELSE rot)
            EXCEPT !.ret = 0]

\* A call on the null pointer faults at its first line (img->curRot); a
\* call on a record that was freed reads and writes released memory.
LoadImageAndRotate(m, i) ==
    IF i = 0 THEN [m EXCEPT !.segv = TRUE, !.ret = 0]
    ELSE LoadedAndRotate(
           LoadImageFromFile(
             [m EXCEPT !.img[i].trueWidth = 0, !.img[i].trueHeight = 0,
                       !.img[i].curRot = 0, !.loads = @ + 1,
                       !.ub = @ \/ m.img[i].freed], i),
           i, m.img[i].curRot, m.img[i].trueWidth = 0)

\* ------------------------------------------------------- NextImage
RECURSIVE NextImage(_)
\* A variant of NextLoaded that gives up at the first record that does
\* not load.
NextLoadedStopping(m) ==
    IF m.segv THEN m
    ELSE IF m.ret # 0 THEN [m EXCEPT !.ret = -1]
    ELSE ShowImage(m)

\* while (LoadImageAndRotate(gCurImage) != 0) of NextImage; ShowImage().
NextLoaded(m) ==
    IF m.segv THEN m
    ELSE IF m.ret # 0 THEN NextImage(m)
    ELSE ShowImage(m)

\* A variant of NextImage that goes round from the last record to the
\* anchor.
NextImageWrapping(m) ==
    IF m.cur = 0
    THEN NextLoaded(LoadImageAndRotate([m EXCEPT !.cur = m.first], m.first))
    ELSE IF m.img[m.cur].next = 0
    THEN [m EXCEPT !.ret = -1]
    ELSE IF m.img[m.cur].next = m.first
    THEN NextLoadedStopping(
           LoadImageAndRotate([m EXCEPT !.cur = m.first], m.first))
    ELSE NextLoaded(LoadImageAndRotate([m EXCEPT !.cur = m.img[m.cur].next],
                                       m.img[m.cur].next))

NextImage(m) ==
    IF m.cur = 0
    THEN NextLoaded(LoadImageAndRotate([m EXCEPT !.cur = m.first], m.first))
    ELSE IF m.img[m.cur].next = 0 \/ m.img[m.cur].next = m.first
    THEN [m EXCEPT !.ret = -1]
    ELSE NextLoaded(LoadImageAndRotate([m EXCEPT !.cur = m.img[m.cur].next],
                                       m.img[m.cur].next))

\* ------------------------------------------------------- PrevImage
RECURSIVE PrevImage(_)
\* while (LoadImageAndRotate(gCurImage) != 0) of PrevImage; ShowImage().
PrevLoaded(m) ==
    IF m.segv THEN m
    ELSE IF m.ret # 0 THEN PrevImage(m)
    ELSE ShowImage(m)

\* A variant of PrevTarget that, with no cursor yet, stays on the anchor.
PrevTargetAnchor(m) ==
    IF m.cur # 0 THEN m.img[m.cur].prev ELSE m.first

\* The record PrevImage moves the cursor to (0: it dereferences null).
PrevTarget(m) ==
    IF m.cur # 0 THEN m.img[m.cur].prev
    ELSE IF m.first = 0 THEN 0
    ELSE IF m.img[m.first].prev # 0 THEN m.img[m.first].prev
    ELSE m.first

PrevImage(m) ==
    IF m.cur # 0 /\ m.cur = m.first
    THEN [m EXCEPT !.ret = -1]
    ELSE IF m.cur = 0 /\ m.first = 0
    THEN [m EXCEPT !.segv = TRUE]
    ELSE PrevLoaded(LoadImageAndRotate([m EXCEPT !.cur = PrevTarget(m)],
                                       PrevTarget(m)))

\* ------------------------------------------------------- ThisImage
ThisImage(m) == NextLoaded(LoadImageAndRotate(m, m.cur))

\* ------------------------------------------------------ EndSession
\* gtk_main_quit() makes the main loop return once the running handler
\* has returned; it does not end the handler.
EndSession(m) == [m EXCEPT !.quit = TRUE]

\* ---------------------------------------------------- FreePhoImage
FreePhoImage(m, i) == [m EXCEPT !.img[i].freed = TRUE]

\* ---------------------------------------------------- ReallyDelete
\* The last branch of the disconnection, with its two repairs of a zero
\* link; prev is delImg->prev after the first repair.
DisconnectInner(m, d, prev) ==
    LET m1 == [m EXCEPT !.cur = d.next,
                        !.img[d.next].prev = d.prev,
                        !.img[prev].next = d.next,
                        !.img[d.next].next =
                            IF m.img[d.next].next = 0 THEN m.first ELSE @]
    IN  [m1 EXCEPT !.img[m1.img[d.next].next].prev = d.next]

\* A variant of Disconnect that, removing the last record, leaves the
\* anchor's prev as it was.
DisconnectHalf(m, delImg, d) ==
    IF delImg = m.first /\ (d.next = m.first \/ d.next = 0)
    THEN EndSession(m)
    ELSE IF d.prev = d.next
    THEN [m EXCEPT !.first = d.prev, !.cur = d.prev,
                   !.img[d.prev].prev = d.prev,
                   !.img[d.prev].next = d.prev]
    ELSE IF d.next = m.first
    THEN [m EXCEPT !.cur = d.prev, !.img[d.prev].next = m.first]
    ELSE DisconnectInner(m, d, d.prev)

\* A variant of Disconnect that, removing the last record, sets the cursor
\* on the anchor.
DisconnectForward(m, delImg, d) ==
    IF delImg = m.first /\ (d.next = m.first \/ d.next = 0)
    THEN EndSession(m)
    ELSE IF d.prev = d.next
    THEN [m EXCEPT !.first = d.prev, !.cur = d.prev,
                   !.img[d.prev].prev = d.prev,
                   !.img[d.prev].next = d.prev]
    ELSE IF d.next = m.first
    THEN [m EXCEPT !.cur = m.first,
                   !.img[d.prev].next = m.first,
                   !.img[m.first].prev = d.prev]
    ELSE DisconnectInner(m, d, d.prev)

\* The four ways ReallyDelete disconnects delImg from the list; d is the
\* record delImg points to. A branch that sets gCurImage to null faults
\* on the next line.
Disconnect(m, delImg, d) ==
    IF delImg = m.first /\ (d.next = m.first \/ d.next = 0)
    THEN EndSession(m)
    ELSE IF d.prev = d.next
    THEN IF d.prev = 0 THEN [m EXCEPT !.cur = 0, !.segv = TRUE]
         ELSE [m EXCEPT !.first = d.prev, !.cur = d.prev,
                        !.img[d.prev].prev = d.prev,
                        !.img[d.prev].next = d.prev]
    ELSE IF d.next = m.first
    THEN IF d.prev = 0 THEN [m EXCEPT !.cur = 0, !.segv = TRUE]
         ELSE [m EXCEPT !.cur = d.prev,
                        !.img[d.prev].next = m.first,
                        !.img[m.first].prev = d.prev]
    ELSE IF d.next = 0 THEN [m EXCEPT !.cur = 0, !.segv = TRUE]
    ELSE DisconnectInner(m, d, IF d.prev = 0 THEN m.first ELSE d.prev)

\* if (delImg == gFirstImage) gFirstImage = delImg->next; then the
\* record is freed and ThisImage() is called.
Disconnected(m, delImg, d) ==
    IF m.segv THEN m
    ELSE ThisImage([FreePhoImage(m, delImg) EXCEPT
                      !.first = IF delImg = m.first THEN d.next ELSE @,
                      !.deleted = TRUE])

\* A variant of ReallyDelete that goes on when unlink() has failed.
ReallyDeleteAnyway(m, delImg, unlinked) ==
    Disconnected(Disconnect(m, delImg, m.img[delImg]),
                 delImg, m.img[delImg])

ReallyDelete(m, delImg, unlinked) ==
    IF ~unlinked THEN m
    ELSE Disconnected(
           Disconnect([m EXCEPT !.files[delImg].exists = FALSE],
                      delImg, m.img[delImg]),
           delImg, m.img[delImg])

\* ------------------------------------------------------ DelayTimer
\* A variant of DelayTimer that does not look at gDelaySeconds.
DelayTimerAlways(m) ==
    NextImage([m EXCEPT !.timeouts = @ - 1, !.pending = 0])

\* glib has taken the source that fires off its list of sources to come;
\* the callback answers FALSE on both paths, so it does not come back.
DelayTimer(m) ==
    IF m.delay = 0 THEN [m EXCEPT !.timeouts = @ - 1]
    ELSE NextImage([m EXCEPT !.timeouts = @ - 1, !.pending = 0])

\* ---------------------------------------------------------- state
VARIABLES
    images,          \* the PhoImage records, by address 1..MaxRecs
    files,           \* the image files on disk, one per record
    gFirstImage,     \* the anchor of the list (0: null)
    gCurImage,       \* the cursor (0: null)
    gImage,          \* the global pixbuf
    pixbufs,         \* the number of pixbufs allocated and not released
    gScaleMode, gScaleRatio, gDisplayMode,
    gMonitorWidth, gMonitorHeight,
    window,          \* <<width, height>> of gWin
    gDelaySeconds, gPendingTimeout,
    timeouts,        \* the number of timeout sources glib holds
    session,         \* "running", "quit" (gtk_main returned) or "crashed"
    ev,              \* what the last event did
    rotated,         \* the buffer the pixel specification rotates
    target           \* the target size the target specification computes

vars == <<images, files, gFirstImage, gCurImage, gImage, pixbufs,
          gScaleMode, gScaleRatio, gDisplayMode, gMonitorWidth,
          gMonitorHeight, window, gDelaySeconds, gPendingTimeout,
          timeouts, session, ev, rotated, target>>

\* ------------------------------------------------ the model's inputs
\* The files the lists are built from: readable images of a given size
\* and EXIF rotation, and files that do not decode.
NoFile == [ok |-> FALSE, exists |-> FALSE, width |-> 0, height |-> 0, exif |-> 0]
BadFile == [ok |-> FALSE, exists |-> TRUE, width |-> 0, height |-> 0, exif |-> 0]
Image(w, h, exif) ==
    [ok |-> TRUE, exists |-> TRUE, width |-> w, height |-> h, exif |-> exif]

\* What may be stored at position r of the command line, for each
\* specification.
ListFiles == [r \in Recs |-> {Image(8, 6, 0), BadFile}]
SlideFiles == [r \in Recs |-> {Image(6, 6, 0), BadFile}]
\* The transform specification puts an image first; the files that follow
\* it in a longer list do not decode, and the navigation moves onto them
\* and skips them. The image is larger than the monitor by less than
\* NORMAL_SCALE_SLOP.
ScaleFiles ==
    [r \in Recs |-> IF r = 1 THEN {Image(17, 13, 0)} ELSE {BadFile}]

Monitor == <<16, 12>>
Window == <<12, 12>>
\* The settings <<gScaleMode, gScaleRatio, gDisplayMode>> the user
\* interface chooses among; the last is no scale mode.
ScaleSettings ==
    { <<PHO_SCALE_NORMAL, <<1, 1>>, PHO_DISPLAY_NORMAL>>,
      <<PHO_SCALE_FULLSCREEN, <<1, 1>>, PHO_DISPLAY_NORMAL>>,
      <<PHO_SCALE_FULLSCREEN, <<1, 1>>, PHO_DISPLAY_PRESENTATION>>,
      <<PHO_SCALE_FULLSIZE, <<1, 1>>, PHO_DISPLAY_NORMAL>>,
      <<PHO_SCALE_IMG_RATIO, <<1, 2>>, PHO_DISPLAY_NORMAL>>,
      <<PHO_SCALE_IMG_RATIO, <<2, 1>>, PHO_DISPLAY_NORMAL>>,
      <<PHO_SCALE_SCREEN_RATIO, <<1, 2>>, PHO_DISPLAY_NORMAL>>,
      <<"PHO_SCALE_BOGUS", <<1, 1>>, PHO_DISPLAY_NORMAL>> }
Delays == {0, 2}
Degrees == {90, -90, 180}
\* What a specification lets happen in an event: whether an allocation
\* may fail, and the events whose outcome ev records in full.
Keys == {"next", "prev", "rotate", "delete", "nodelete", "show", "timer"}
ListRun == [fail |-> FALSE, track |-> Keys]
ScaleRun == [fail |-> TRUE, track |-> {"rotate"}]
\* What the conversion of a NaN to int may give.
NanInts == {-1000000, 0}

\* ------------------------------------------------------------ Init
\* A circular list of n records, linked in command-line order.
Ring(n) ==
    [r \in Recs |->
        IF r <= n
        THEN [NewPhoImage EXCEPT !.next = IF r = n THEN 1 ELSE r + 1,
                                 !.prev = IF r = 1 THEN n ELSE r - 1]
        ELSE NewPhoImage]

NoEvent ==
    [op |-> "none", arg |-> 0, ret |-> 0, loads |-> 0, run |-> 0,
     from |-> <<>>, armed |-> FALSE, scaleErr |-> FALSE, rotErr |-> FALSE,
     badMode |-> FALSE, reloaded |-> FALSE, rotFirst |-> FALSE,
     scaled |-> FALSE, ub |-> FALSE, crashed |-> FALSE]

\* The state once the list has been built from a command line of at most
\* maxN files, each taken from Choice; the globals have the values of
\* their definitions, so the cursor is null until the first NextImage.
InitWith(maxN, Choice) ==
    /\ \E n \in 1..maxN :
         /\ images = Ring(n)
         /\ files \in {f \in [Recs -> UNION {Choice[r] : r \in Recs}
                                       \cup {NoFile}] :
                          \A r \in Recs : IF r <= n THEN f[r] \in Choice[r]
                                          ELSE f[r] = NoFile}
    /\ gFirstImage = 1
    /\ gCurImage = 0
    /\ gImage = NullPixbuf
    /\ pixbufs = 0
    /\ gScaleMode = PHO_SCALE_NORMAL
    /\ gScaleRatio = <<1, 1>>
    /\ gDisplayMode = PHO_DISPLAY_NORMAL
    /\ gMonitorWidth = Monitor[1]
    /\ gMonitorHeight = Monitor[2]
    /\ window = Window
    /\ gDelaySeconds = 0
    /\ gPendingTimeout = 0
    /\ timeouts = 0
    /\ session = "running"
    /\ ev = NoEvent

\* The specifications of the list, the slideshow and the transforms do
\* not look at the pixels.
NoPixels == <<>>
NoTarget == <<>>

Init ==
    InitWith(MaxRecs, ListFiles) /\ rotated = NoPixels /\ target = NoTarget

\* ------------------------------------------- events of the main loop
\* The machine at the start of an event.
Machine(failAt, nanInt) ==
    [img |-> images, files |-> files, first |-> gFirstImage,
     cur |-> gCurImage, gImage |-> gImage, live |-> pixbufs,
     mode |-> gScaleMode, ratio |-> gScaleRatio, display |-> gDisplayMode,
     monW |-> gMonitorWidth, monH |-> gMonitorHeight,
     winW |-> window[1], winH |-> window[2],
     delay |-> gDelaySeconds, pending |-> gPendingTimeout,
     timeouts |-> timeouts, quit |-> FALSE,
     ret |-> 0, loads |-> 0, nalloc |-> 0, failAt |-> failAt,
     nanInt |-> nanInt, armed |-> FALSE, scaleErr |-> FALSE,
     rotErr |-> FALSE, badMode |-> FALSE, ub |-> FALSE, segv |-> FALSE,
     reloaded |-> FALSE, rotFirst |-> FALSE, scaled |-> FALSE, nrot |-> 0,
     deleted |-> FALSE]

\* The number of NextImage calls made from the keyboard, one after the
\* other, since the cursor was on the anchor (0: not counted).
Run(op) ==
    IF op # "next" THEN 0
    ELSE IF gCurImage # 0 /\ gCurImage = gFirstImage THEN 1
    ELSE IF ev.run >= 1 /\ ev.run <= MaxRecs THEN ev.run + 1
    ELSE 0

\* The width and height of the buffer before a quarter turn of a record
\* that stands at curRot = 0 (<<>>: the event is no such turn).
From(op, arg) ==
    IF op = "rotate" /\ arg = 90 /\ gCurImage # 0
       /\ images[gCurImage].curRot = 0 /\ ~gImage.null
    THEN <<gImage.width, gImage.height>>
    ELSE <<>>

Event(m, op, arg, crashed, track) ==
    IF op \in track
    THEN [op |-> op, arg |-> arg, ret |-> m.ret, loads |-> m.loads,
          run |-> Run(op), from |-> From(op, arg), armed |-> m.armed,
          scaleErr |-> m.scaleErr, rotErr |-> m.rotErr,
          badMode |-> m.badMode, reloaded |-> m.reloaded,
          rotFirst |-> m.rotFirst, scaled |-> m.scaled, ub |-> m.ub,
          crashed |-> crashed]
    ELSE [NoEvent EXCEPT !.op = "other", !.scaled = m.scaled,
                         !.scaleErr = m.scaleErr, !.rotErr = m.rotErr,
                         !.crashed = crashed]

\* A freed record that neither the cursor nor the anchor refers to can
\* not be read again; what its memory holds is left out of the state.
Forget(m) ==
    [r \in Recs |->
        IF m.img[r].freed /\ r # m.cur /\ r # m.first
        THEN [NewPhoImage EXCEPT !.freed = TRUE]
        ELSE m.img[r]]

\* The state after the handler of an event has returned. A fault ends the
\* process; undefined behaviour either ends it or lets it run on.
Return(m, op, arg, crash, track) ==
    IF m.segv \/ (m.ub /\ crash)
    THEN /\ session' = "crashed"
         /\ ev' = Event(m, op, arg, TRUE, track)
         /\ UNCHANGED <<images, files, gFirstImage, gCurImage, gImage,
                        pixbufs, gPendingTimeout, timeouts>>
    ELSE /\ images' = Forget(m)
         /\ files' = m.files
         /\ gFirstImage' = m.first
         /\ gCurImage' = m.cur
         /\ gImage' = m.gImage
         /\ pixbufs' = m.live
         /\ gPendingTimeout' = m.pending
         /\ timeouts' = m.timeouts
         /\ session' = IF m.quit THEN "quit" ELSE "running"
         /\ ev' = Event(m, op, arg, FALSE, track)

\* The outcomes of undefined behaviour, when the handler runs into it:
\* it ends the process or lets it run on.
Outcomes(m) == IF m.ub /\ ~m.segv THEN BOOLEAN ELSE {FALSE}

NanChoices == IF gScaleMode = PHO_SCALE_FULLSCREEN THEN NanInts ELSE {0}

Settings == <<gScaleMode, gScaleRatio, gDisplayMode, gMonitorWidth,
              gMonitorHeight, window, gDelaySeconds>>

\* The records of the list: allocated and linked.
ListRecs(img) == {r \in Recs : ~img[r].freed /\ img[r].next # 0}

\* The routine the handler of an event calls.
Call(m, op, arg) ==
    CASE op = "next" -> NextImage(m)
      [] op = "prev" -> PrevImage(m)
      [] op = "rotate" -> ScaleAndRotate(m, m.cur, arg)
      [] op = "delete" -> ReallyDelete(m, arg, TRUE)
      [] op = "nodelete" -> ReallyDelete(m, arg, FALSE)
      [] op = "show" -> ShowImage(m)
      [] op = "timer" -> DelayTimer(m)

\* One event: its handler runs to completion. At most one of the
\* allocations it makes fails: none, or any one of those the handler
\* makes up to there.
Returns(m, op, arg, track) ==
    \E crash \in Outcomes(m) : Return(m, op, arg, crash, track)

Handled(m0, F, op, arg, nanInt) ==
    \E failAt \in (IF F.fail THEN 0..m0.nalloc ELSE {0}) :
       Returns(IF failAt = 0 THEN m0
               ELSE Call(Machine(failAt, nanInt), op, arg),
               op, arg, F.track)

Handle(F, op, arg) ==
    /\ \E nanInt \in NanChoices :
         Handled(Call(Machine(0, nanInt), op, arg), F, op, arg, nanInt)
    /\ UNCHANGED Settings
    /\ UNCHANGED <<rotated, target>>

\* The space key: NextImage().
KeyNext(F) ==
    /\ session = "running"
    /\ Handle(F, "next", 0)

\* The backspace key: PrevImage().
KeyPrev(F) ==
    /\ session = "running"
    /\ Handle(F, "prev", 0)

\* An external caller turns the image: ScaleAndRotate(gCurImage, d).
KeyRotate(F) ==
    /\ session = "running"
    /\ gCurImage # 0
    /\ \E d \in Degrees :
         Handle(F, "rotate", d)

\* DeleteImage(r) for a record r of the list, once the prompt has been
\* answered with yes: ReallyDelete(r), whose unlink() succeeds or fails.
\* The key is handled while an image is displayed.
KeyDelete(F) ==
    /\ session = "running"
    /\ gCurImage # 0
    /\ \E r \in ListRecs(images), unlinked \in BOOLEAN :
        Handle(F, IF unlinked THEN "delete" ELSE "nodelete", r)

\* A redisplay: ShowImage().
Expose(F) ==
    /\ session = "running"
    /\ gCurImage # 0
    /\ Handle(F, "show", 0)

\* glib dispatches a timeout source: DelayTimer(0).
Timer(F) ==
    /\ session = "running"
    /\ timeouts > 0
    /\ Handle(F, "timer", 0)

\* The user interface sets gDelaySeconds.
SetDelay ==
    /\ session = "running"
    /\ \E s \in Delays : gDelaySeconds' = s /\ s # gDelaySeconds
    /\ ev' = [NoEvent EXCEPT !.op = "delay"]
    /\ UNCHANGED <<images, files, gFirstImage, gCurImage, gImage, pixbufs,
                   gScaleMode, gScaleRatio, gDisplayMode, gMonitorWidth,
                   gMonitorHeight, window, gPendingTimeout, timeouts,
                   session, rotated, target>>

\* The user interface sets gScaleMode, gScaleRatio and gDisplayMode.
SetScaleMode ==
    /\ session = "running"
    /\ \E set \in ScaleSettings :
         /\ gScaleMode' = set[1]
         /\ gScaleRatio' = set[2]
         /\ gDisplayMode' = set[3]
         /\ set # <<gScaleMode, gScaleRatio, gDisplayMode>>
    /\ ev' = [NoEvent EXCEPT !.op = "mode"]
    /\ UNCHANGED <<images, files, gFirstImage, gCurImage, gImage, pixbufs,
                   gMonitorWidth, gMonitorHeight, window, gDelaySeconds,
                   gPendingTimeout, timeouts, session, rotated, target>>

\* ------------------------------------------------- specifications
\* The list: navigation and deletion over lists of up to MaxRecs files.
Next ==
    \/ KeyNext(ListRun)
    \/ KeyPrev(ListRun)
    \/ KeyDelete(ListRun)

Spec == Init /\ [][Next]_vars

\* The slideshow: the timer among the keyboard events.
InitSlide ==
    /\ InitWith(MaxSlideRecs, SlideFiles)
    /\ rotated = NoPixels
    /\ target = NoTarget

NextSlide ==
    \/ KeyNext(ListRun)
    \/ KeyPrev(ListRun)
    \/ KeyRotate(ListRun)
    \/ KeyDelete(ListRun)
    \/ Timer(ListRun)
    \/ SetDelay

SpecSlide == InitSlide /\ [][NextSlide]_vars

\* The transforms: every scale mode, rotations and failing allocations.
InitScale ==
    /\ InitWith(MaxScaleRecs, ScaleFiles)
    /\ rotated = NoPixels
    /\ target = NoTarget

NextScale ==
    \/ KeyNext(ScaleRun)
    \/ KeyPrev(ScaleRun)
    \/ KeyRotate(ScaleRun)
    \/ KeyDelete(ScaleRun)
    \/ Expose(ScaleRun)
    \/ SetScaleMode

SpecScale == InitScale /\ [][NextScale]_vars

\* The pixels: RotateImage on buffers of every width and height up to
\* MaxSide, of three or four channels, each byte of which holds a value
\* of its own; padding bytes hold 0.
Channels == {3, 4}
TurnDegrees == {90, 180, 270, -90}

Labelled(w, h, n) ==
    [width |-> w, height |-> h, nchannels |-> n,
     rowstride |-> Rowstride(w, n),
     pixels |-> [o \in 0..(h * Rowstride(w, n) - 1) |->
                   IF o % Rowstride(w, n) < w * n THEN o + 1 ELSE 0]]

InitPixels ==
    /\ InitWith(1, ScaleFiles)
    /\ target = NoTarget
    /\ \E w \in 1..MaxSide, h \in 1..MaxSide, n \in Channels :
         rotated = [start |-> Labelled(w, h, n), buf |-> Labelled(w, h, n),
                    turns |-> <<>>]

\* RotateImage(img, d) on the buffer.
Turn ==
    /\ Len(rotated.turns) < MaxTurns
    /\ \E d \in TurnDegrees :
         rotated' = [rotated EXCEPT !.buf = RotatePixels(rotated.buf, d),
                                    !.turns = Append(@, d)]
    /\ UNCHANGED <<images, files, gFirstImage, gCurImage, gImage, pixbufs,
                   gScaleMode, gScaleRatio, gDisplayMode, gMonitorWidth,
                   gMonitorHeight, window, gDelaySeconds, gPendingTimeout,
                   timeouts, session, ev, target>>

NextPixels == Turn

SpecPixels == InitPixels /\ [][NextPixels]_vars

\* The target size: the branches of ScaleAndRotate on gScaleMode, for a
\* record of every true size up to MaxTrue and two photographs, on each of
\* the monitors, with the buffer at the true size, near it or far from it.
Monitors == {<<16, 12>>, <<15, 20>>}
TargetExamples ==
    { [true |-> <<4000, 3000>>, monitor |-> <<1920, 1080>>],
      [true |-> <<2272, 1704>>, monitor |-> <<1440, 900>>] }
TargetInputs ==
    {[true |-> <<w, h>>, monitor |-> mon] :
        w \in 1..MaxTrue, h \in 1..MaxTrue, mon \in Monitors}
      \cup TargetExamples
AtLeastOne(a) == IF a < 1 THEN 1 ELSE a
CurSizes(t) ==
    {t, <<AtLeastOne(t[1] - 2), AtLeastOne(t[2] - 1)>>, <<1, 1>>}
TargetModes == {PHO_SCALE_FULLSIZE, PHO_SCALE_NORMAL}
TargetDegrees == {0, 90, 180, 270}

InitTarget ==
    \E in \in TargetInputs, mode \in TargetModes :
      \E cur \in CurSizes(in.true) :
        /\ images = [Ring(1) EXCEPT ![1].trueWidth = in.true[1],
                                    ![1].trueHeight = in.true[2],
                                    ![1].curWidth = cur[1],
                                    ![1].curHeight = cur[2]]
        /\ files = [r \in Recs |->
                      IF r = 1 THEN Image(in.true[1], in.true[2], 0)
                      ELSE NoFile]
        /\ gFirstImage = 1
        /\ gCurImage = 1
        /\ gImage = Pixbuf(cur[1], cur[2])
        /\ pixbufs = 1
        /\ gScaleMode = mode
        /\ gScaleRatio = <<1, 1>>
        /\ gDisplayMode = PHO_DISPLAY_NORMAL
        /\ gMonitorWidth = in.monitor[1]
        /\ gMonitorHeight = in.monitor[2]
        /\ window = Window
        /\ gDelaySeconds = 0
        /\ gPendingTimeout = 0
        /\ timeouts = 0
        /\ session = "running"
        /\ ev = NoEvent
        /\ rotated = NoPixels
        /\ target = NoTarget

\* new_width and new_height when ScaleAndRotate(img, degrees) has gone
\* through the branches on gScaleMode.
TargetOf(s, degrees) ==
    [degrees |-> degrees, w |-> s.new_width, h |-> s.new_height]

ComputeTarget ==
    /\ target = NoTarget
    /\ \E d \in TargetDegrees :
         target' = TargetOf(ScaleAndRotateTarget(ScaleAndRotateSwap(
                              ScaleAndRotateLocals(Machine(0, 0),
                                                   gCurImage, d))), d)
    /\ UNCHANGED <<images, files, gFirstImage, gCurImage, gImage, pixbufs,
                   gScaleMode, gScaleRatio, gDisplayMode, gMonitorWidth,
                   gMonitorHeight, window, gDelaySeconds, gPendingTimeout,
                   timeouts, session, ev, rotated>>

NextTarget == ComputeTarget

SpecTarget == InitTarget /\ [][NextTarget]_vars

\* The first view: a list of one file that decodes or not; a file that
\* did not decode when the cursor came onto its record can be replaced on
\* disk by one that does, since every load reads the file anew.
FirstFiles == [r \in Recs |-> {Image(17, 13, 0), Image(8, 6, 0), BadFile}]
FirstSettings ==
    {set \in ScaleSettings :
        set[1] \in {PHO_SCALE_NORMAL, PHO_SCALE_FULLSIZE, PHO_SCALE_IMG_RATIO}}

InitFirst ==
    /\ InitWith(1, FirstFiles)
    /\ rotated = NoPixels
    /\ target = NoTarget

\* The file of a record is replaced by one that decodes.
Repair ==
    /\ session = "running"
    /\ \E r \in ListRecs(images) :
         /\ ~files[r].ok
         /\ files[r].exists
         /\ files' = [files EXCEPT ![r] = Image(17, 13, 0)]
    /\ ev' = [NoEvent EXCEPT !.op = "file"]
    /\ UNCHANGED <<images, gFirstImage, gCurImage, gImage, pixbufs,
                   gScaleMode, gScaleRatio, gDisplayMode, gMonitorWidth,
                   gMonitorHeight, window, gDelaySeconds, gPendingTimeout,
                   timeouts, session, rotated, target>>

\* The user interface sets one of the scale modes of FirstSettings.
SetFirstMode ==
    /\ SetScaleMode
    /\ <<gScaleMode', gScaleRatio', gDisplayMode'>> \in FirstSettings

NextFirst ==
    \/ KeyNext(ListRun)
    \/ KeyPrev(ListRun)
    \/ KeyRotate(ListRun)
    \/ Expose(ListRun)
    \/ SetFirstMode
    \/ Repair

SpecFirst == InitFirst /\ [][NextFirst]_vars

\* Coming back: a list of images that decode, one of which holds an EXIF
\* rotation; the keys move along the list and turn the image.
BackFiles ==
    [r \in Recs |-> {Image(17, 13, 0), Image(17, 13, 90), Image(8, 6, 90)}]

InitBack ==
    /\ InitWith(MaxScaleRecs, BackFiles)
    /\ rotated = NoPixels
    /\ target = NoTarget

NextBack ==
    \/ KeyNext(ListRun)
    \/ KeyPrev(ListRun)
    \/ KeyRotate(ListRun)

SpecBack == InitBack /\ [][NextBack]_vars

\* ------------------------------------------------------ properties
\* Following next n times from x.
RECURSIVE Follow(_, _, _)
Follow(img, x, n) ==
    IF n = 0 \/ x = 0 THEN x ELSE Follow(img, img[x].next, n - 1)

\* The records L form a circular doubly-linked list anchored at first.
Circular(img, first, L) ==
    /\ \A x \in L : /\ img[x].next \in L
                    /\ img[x].prev \in L
                    /\ img[img[x].next].prev = x
                    /\ img[img[x].prev].next = x
    /\ L # {} =>
         /\ first \in L
         /\ Follow(img, first, Cardinality(L)) = first
         /\ {Follow(img, first, j) : j \in 0..(Cardinality(L) - 1)} = L

\* C1: a ReallyDelete(r) whose unlink succeeds, on a list of k records
\* (k = 3, 2, 1), leaves the k-1 other records, each x of them with
\* x.next.prev = x and x.prev.next = x, and following next k-1 times from
\* the anchor comes back to the anchor through every record. With k >= 2
\* the handler always returns; with k = 1 it is required of the handler
\* when it returns.
C1_DeleteKeepsRing ==
    [][ev'.op = "delete" =>
         LET k == Cardinality(ListRecs(images))
         IN  /\ k >= 2 => ~ev'.crashed
             /\ ~ev'.crashed =>
                  /\ ListRecs(images') = ListRecs(images) \ {ev'.arg}
                  /\ Cardinality(ListRecs(images')) = k - 1
                  /\ Circular(images', gFirstImage', ListRecs(images'))]_vars

\* A record was removed from a list of three.
C1_Witness ==
    /\ ev.op = "delete"
    /\ session = "running"
    /\ Cardinality(ListRecs(images)) = 2

\* C2: deleting the only record of a list ends the session without a
\* fault, and afterwards neither the cursor nor the anchor refers to the
\* freed record and no load was made on it.
C2_SoleDeleteLeavesNoReference ==
    [][(ev'.op = "delete" /\ Cardinality(ListRecs(images)) = 1) =>
         /\ ~ev'.crashed
         /\ session' = "quit"
         /\ ev'.loads = 0
         /\ (gCurImage' = 0 \/ ~images'[gCurImage'].freed)
         /\ (gFirstImage' = 0 \/ ~images'[gFirstImage'].freed)]_vars

\* The handler has returned with the cursor on the freed record.
C2_Witness ==
    /\ ev.op = "delete"
    /\ gCurImage # 0
    /\ images[gCurImage].freed
    /\ ev.loads > 0

\* The fields of a record that a transform works on.
Geometry(img) ==
    <<img.curWidth, img.curHeight, img.curRot, img.trueWidth, img.trueHeight>>

\* C3: when the scale step of ScaleAndRotate fails, the record's curWidth,
\* curHeight, curRot, trueWidth and trueHeight and the live buffer are
\* what they were when ScaleAndRotate was called.
C3_ScaleFailureKeepsState ==
    [][(ev'.op = "rotate" /\ ev'.scaleErr /\ ~ev'.crashed) =>
         /\ Geometry(images'[gCurImage]) = Geometry(images[gCurImage])
         /\ gImage' = gImage]_vars

\* A ScaleAndRotate has returned after its scale step failed.
C3_Witness ==
    /\ ev.op = "rotate"
    /\ ev.scaleErr
    /\ ~ev.crashed
    /\ ~gImage.null

\* The records NextImage may move to from x, in order: those after x up
\* to the last record of the list.
RECURSIVE After(_, _, _, _)
After(img, first, x, n) ==
    IF n = 0 \/ img[x].next = 0 \/ img[x].next = first THEN <<>>
    ELSE <<img[x].next>> \o After(img, first, img[x].next, n - 1)

Candidates ==
    IF gCurImage = 0
    THEN <<gFirstImage>> \o After(images, gFirstImage, gFirstImage, MaxRecs)
    ELSE After(images, gFirstImage, gCurImage, MaxRecs)

Readable(r) == files[r].exists /\ files[r].ok

\* C4: NextImage on a list of N records makes at most N load attempts
\* and ends either with 0 and the cursor on the first record after the
\* old cursor, up to the end of the list, that decodes, every record
\* before it having been tried and skipped, or with -1 when no record
\* after the old cursor decodes.
C4_NextSkipsUnreadable ==
    [][ev'.op = "next" =>
         LET c == Candidates
             good == {j \in 1..Len(c) : Readable(c[j])}
         IN  /\ ~ev'.crashed
             /\ ev'.loads <= Cardinality(ListRecs(images))
             /\ ev'.ret \in {0, -1}
             /\ ev'.ret = 0 <=> good # {}
             /\ good # {} =>
                  \E j \in good :
                     /\ \A h \in good : j <= h
                     /\ gCurImage' = c[j]
                     /\ ev'.loads = j
             /\ good = {} => ev'.loads = Len(c)]_vars

\* A NextImage has skipped a record that does not decode and stopped on
\* one that does.
C4_Witness ==
    /\ ev.op = "next"
    /\ ev.ret = 0
    /\ ev.loads >= 2

\* The state after N NextImage calls in a row that began with the cursor
\* on the anchor of a list of N records, all of which decode.
AfterFullRun ==
    /\ ev.op = "next"
    /\ ListRecs(images) # {}
    /\ ev.run = Cardinality(ListRecs(images))
    /\ \A r \in ListRecs(images) : Readable(r)

\* C5, as the specification states it: N calls of NextImage from the
\* anchor of a list of N records that all decode leave the cursor on the
\* anchor again.
C5_CycleClosure == AfterFullRun => gCurImage = gFirstImage

\* C5, as the code has it: the N calls leave the cursor on the last
\* record of the list, the record before the anchor, and the N-th call
\* answers -1 without loading anything; the cursor is on the anchor only
\* when the list has one record.
C5_RunEndsOnLastRecord ==
    AfterFullRun =>
        /\ gCurImage = images[gFirstImage].prev
        /\ ev.ret = -1
        /\ ev.loads = 0
        /\ gCurImage = gFirstImage <=> Cardinality(ListRecs(images)) = 1

\* Three calls from the anchor of a list of three.
C5_Witness ==
    /\ AfterFullRun
    /\ Cardinality(ListRecs(images)) = 3

\* A ScaleAndRotate that returned having reported no failure of the scale
\* and with its rotation done.
Succeeded(e) == e.op = "rotate" /\ ~e.scaleErr /\ ~e.rotErr /\ ~e.crashed

\* The curRot of the record under the cursor after a successful
\* ScaleAndRotate(record, d) is (curRot before + d) mod 360.
RotationAdds ==
    Succeeded(ev') =>
        /\ images'[gCurImage].curRot
             = (images[gCurImage].curRot + ev'.arg) % 360
        /\ images'[gCurImage].curRot \in {0, 90, 180, 270}

\* The step is the second of two successful calls with d = 90 in a row,
\* the first made at curRot = 0.
SecondQuarterTurn ==
    /\ Succeeded(ev)
    /\ ev.from # <<>>
    /\ Succeeded(ev')
    /\ ev'.arg = 90

C7_OneLiveBuffer ==
    /\ pixbufs <= 1
    /\ pixbufs = 1 => ~gImage.null
    /\ ~gImage.null => (~gImage.released /\ pixbufs = 1)

\* A transform has replaced the buffer.
C7_Witness ==
    /\ Succeeded(ev)
    /\ pixbufs = 1
    /\ images[gCurImage].curRot = 270

Manual == {"next", "prev", "rotate", "delete", "nodelete"}

\* C8: at most one slideshow callback is outstanding at any time, and a
\* navigation, rotation or deletion made while one is outstanding leaves
\* it outstanding and arms no other.
C8_OneCallback ==
    /\ [](timeouts <= 1)
    /\ [][(ev'.op \in Manual /\ timeouts = 1) =>
            /\ timeouts' = 1
            /\ gPendingTimeout' = gPendingTimeout
            /\ ~ev'.armed]_vars

\* A NextImage from the keyboard has displayed an image while a callback
\* was outstanding.
C8_Witness ==
    /\ ev.op = "next"
    /\ ev.ret = 0
    /\ ~ev.armed
    /\ timeouts = 1
    /\ session = "running"

\* C9: the callback is armed only if the delay is greater than zero and
\* the list has more than one record.
C9_ArmedOnlyOnLongerList ==
    [][ev'.armed =>
         /\ gDelaySeconds > 0
         /\ Cardinality(ListRecs(images')) > 1]_vars

\* A callback is outstanding that was armed on a list of one record.
C9_Witness ==
    /\ ev.armed
    /\ timeouts = 1
    /\ Cardinality(ListRecs(images)) = 1

\* C10: a callback that fires when gDelaySeconds is zero does not call
\* NextImage and changes neither the cursor nor the buffer nor a record.
C10_TimerNoOpAtZeroDelay ==
    [][(ev'.op = "timer" /\ gDelaySeconds = 0) =>
         /\ ev'.loads = 0
         /\ ev'.ret = 0
         /\ ~ev'.armed
         /\ UNCHANGED <<gCurImage, gFirstImage, gImage, pixbufs, images,
                        files>>]_vars

\* A callback has fired with the delay at zero.
C10_Witness ==
    /\ ev.op = "timer"
    /\ gDelaySeconds = 0
    /\ timeouts = 0

\* The records PrevImage may move to from x, in order: those before x
\* down to the anchor.
RECURSIVE Before(_, _, _, _)
Before(img, first, x, n) ==
    IF n = 0 \/ x = first \/ img[x].prev = 0 THEN <<>>
    ELSE <<img[x].prev>> \o Before(img, first, img[x].prev, n - 1)

PrevCandidates ==
    IF gCurImage = 0
    THEN <<images[gFirstImage].prev>>
           \o Before(images, gFirstImage, images[gFirstImage].prev, MaxRecs)
    ELSE Before(images, gFirstImage, gCurImage, MaxRecs)

\* C11: PrevImage with no cursor yet goes to the anchor's predecessor;
\* with the cursor on the anchor it answers -1, loads nothing and leaves
\* the cursor; otherwise it goes to the cursor's predecessor. From there
\* it skips, towards the anchor, the records that do not load: it answers
\* 0 with the cursor on the first that loads, or -1 on the anchor when
\* none does.
C11_PrevLandsOnPredecessor ==
    [][ev'.op = "prev" =>
         LET c == PrevCandidates
             good == {j \in 1..Len(c) : Readable(c[j])}
         IN  /\ ~ev'.crashed
             /\ (gCurImage = 0 => c[1] = images[gFirstImage].prev)
             /\ (gCurImage # 0 /\ gCurImage # gFirstImage
                    => c[1] = images[gCurImage].prev)
             /\ (gCurImage # 0 /\ gCurImage = gFirstImage) =>
                   /\ ev'.ret = -1
                   /\ ev'.loads = 0
                   /\ gCurImage' = gCurImage
             /\ ev'.ret = 0 <=> good # {}
             /\ good # {} =>
                  \E j \in good :
                     /\ \A h \in good : j <= h
                     /\ gCurImage' = c[j]
                     /\ ev'.loads = j
             /\ good = {} =>
                  /\ ev'.ret = -1
                  /\ ev'.loads = Len(c)
                  /\ (c # <<>> => gCurImage' = gFirstImage)]_vars

\* A PrevImage made with no cursor yet has skipped the last record, which
\* does not load, and stopped on the one before it.
C11_Witness ==
    /\ ev.op = "prev"
    /\ ev.ret = 0
    /\ ev.loads = 2
    /\ gCurImage # 0
    /\ images[gCurImage].next = images[gFirstImage].prev
    /\ gCurImage # images[gFirstImage].prev

\* C12: a ReallyDelete whose unlink() fails returns at once: the anchor,
\* the cursor, every record and its links, the files and the buffer are as
\* before, no record is freed and nothing is loaded.
C12_FailedUnlinkKeepsList ==
    [][ev'.op = "nodelete" =>
         /\ ~ev'.crashed
         /\ session' = "running"
         /\ ev'.loads = 0
         /\ ListRecs(images') = ListRecs(images)
         /\ \A r \in Recs : images'[r].freed = images[r].freed
         /\ UNCHANGED <<images, files, gFirstImage, gCurImage, gImage,
                        pixbufs>>]_vars

\* The unlink() of a record of a list of two or more has failed.
C12_Witness ==
    /\ ev.op = "nodelete"
    /\ gCurImage # 0
    /\ Cardinality(ListRecs(images)) >= 2
    /\ ev.arg \in ListRecs(images)

\* The records that have been loaded and whose file still decodes.
Loaded ==
    {r \in Recs : /\ ~images[r].freed
                  /\ images[r].trueWidth # 0
                  /\ Readable(r)}

TrueSize(img) == <<img.trueWidth, img.trueHeight>>

\* C13, as the specification states it: from its first load on, a
\* record's trueWidth and trueHeight are the width and height of the
\* decoded file, whatever rotations were made.
C13_TrueSizeIsDecodedSize ==
    \A r \in Loaded :
       TrueSize(images[r]) = <<files[r].width, files[r].height>>

\* C13, as the code has it: trueWidth and trueHeight are the decoded width
\* and height in one order or the other. A successful ScaleAndRotate that
\* does not reload exchanges them when it rotates by 90 or 270 and keeps
\* them when it rotates by 0 or 180, so that they follow the orientation
\* of the record; one that reloads may leave them in either order.
C13_TrueSizeFollowsRotation ==
    /\ [](\A r \in Loaded :
            TrueSize(images[r]) \in {<<files[r].width, files[r].height>>,
                                     <<files[r].height, files[r].width>>})
    /\ [][(Succeeded(ev') /\ ~ev'.reloaded /\ gCurImage \in Loaded) =>
            IF ev'.arg \in {90, -90}
            THEN TrueSize(images'[gCurImage])
                   = <<images[gCurImage].trueHeight,
                       images[gCurImage].trueWidth>>
            ELSE TrueSize(images'[gCurImage])
                   = TrueSize(images[gCurImage])]_vars

\* A quarter turn has exchanged trueWidth and trueHeight.
C13_Witness ==
    /\ Succeeded(ev)
    /\ ev.arg = 90
    /\ ~ev.reloaded
    /\ gCurImage \in Loaded
    /\ images[gCurImage].curRot = 90
    /\ TrueSize(images[gCurImage])
         = <<files[gCurImage].height, files[gCurImage].width>>
    /\ files[gCurImage].height # files[gCurImage].width

\* The bytes of the pixels of a buffer, by position and channel.
PixelAt(b, x, y, i) == b.pixels[Offset(x, y, i, b.rowstride, b.nchannels)]

Positions(b) ==
    (0..(b.width - 1)) \X (0..(b.height - 1)) \X (0..(b.nchannels - 1))

SamePixels(a, b) ==
    /\ a.width = b.width
    /\ a.height = b.height
    /\ a.nchannels = b.nchannels
    /\ \A p \in Positions(a) :
          PixelAt(a, p[1], p[2], p[3]) = PixelAt(b, p[1], p[2], p[3])

\* The rotations made, as RotateImage normalises them.
Turned == [j \in 1..Len(rotated.turns) |->
              CMod(rotated.turns[j] + 360, 360)]

C15_UnknownModeDoesNothing ==
    [][(ev'.op = "rotate" /\ ev'.badMode /\ ~ev'.crashed) =>
         /\ Geometry(images'[gCurImage]) = Geometry(images[gCurImage])
         /\ gImage' = gImage]_vars

\* A ScaleAndRotate has rotated the image while gScaleMode was none of the
\* five modes.
C15_Witness ==
    /\ ev.op = "rotate"
    /\ ev.badMode
    /\ ~ev.crashed
    /\ ~ev.rotErr
    /\ ev.arg = 180
    /\ images[gCurImage].curRot = 180
    /\ ~gImage.null

\* The record's true size as the rotation asked for will leave it.
TrueAfter(d) ==
    IF d \in {90, 270}
    THEN <<images[1].trueHeight, images[1].trueWidth>>
    ELSE <<images[1].trueWidth, images[1].trueHeight>>

\* C16: in mode FullSize the target is the record's true width and
\* height, exchanged when the rotation asked for is 90 or 270, whatever
\* the monitor and the current size are; a 4000x3000 image on a 1920x1080
\* monitor has the target 4000x3000.
C16_FullSizeTargetIsTrueSize ==
    (target # NoTarget /\ gScaleMode = PHO_SCALE_FULLSIZE) =>
        /\ <<target.w, target.h>> = TrueAfter(target.degrees)
        /\ (/\ TrueSize(images[1]) = <<4000, 3000>>
            /\ <<gMonitorWidth, gMonitorHeight>> = <<1920, 1080>>
            /\ target.degrees = 0) => <<target.w, target.h>> = <<4000, 3000>>

\* The target of a quarter turn of an image larger than the monitor has
\* been computed in mode FullSize.
C16_Witness ==
    /\ target # NoTarget
    /\ gScaleMode = PHO_SCALE_FULLSIZE
    /\ target.degrees = 90
    /\ images[1].trueWidth > gMonitorWidth
    /\ images[1].trueWidth # images[1].trueHeight
    /\ <<images[1].curWidth, images[1].curHeight>> # TrueSize(images[1])

\* The monitor bounds the record's true size as the rotation will leave it.
FitsMonitor(d) ==
    /\ TrueAfter(d)[1] <= gMonitorWidth
    /\ TrueAfter(d)[2] <= gMonitorHeight

\* The width is the more constrained axis: gMonitorWidth / width is not
\* more than gMonitorHeight / height.
WidthBound(d) ==
    gMonitorWidth * TrueAfter(d)[2] <= gMonitorHeight * TrueAfter(d)[1]

\* The true size shrunk by one common factor: the more constrained axis is
\* the monitor's, the other one is the product to the nearest unit.
ShrunkToMonitor(d, w, h) ==
    IF WidthBound(d)
    THEN /\ w = gMonitorWidth
         /\ h <= gMonitorHeight
         /\ h \in ((gMonitorWidth * TrueAfter(d)[2]) \div TrueAfter(d)[1] - 1)
                  .. ((gMonitorWidth * TrueAfter(d)[2]) \div TrueAfter(d)[1]
                        + 1)
    ELSE /\ h = gMonitorHeight
         /\ w <= gMonitorWidth
         /\ w \in ((gMonitorHeight * TrueAfter(d)[1]) \div TrueAfter(d)[2] - 1)
                  .. ((gMonitorHeight * TrueAfter(d)[1]) \div TrueAfter(d)[2]
                        + 1)

\* The current size as the rotation asked for will leave it.
CurAfter(d) ==
    IF d \in {90, 270}
    THEN <<images[1].curHeight, images[1].curWidth>>
    ELSE <<images[1].curWidth, images[1].curHeight>>

\* C17: in mode Normal with ratio 1.0, when the target is not the current
\* size kept by the slop rule, it is the true size if that fits the
\* monitor on both axes, and otherwise the true size shrunk by one common
\* factor, within the monitor, with the more constrained axis equal to the
\* monitor's; a 4000x3000 image on a 1920x1080 monitor has the target
\* 1440x1080.
C17_NormalTargetFitsMonitor ==
    (/\ target # NoTarget
     /\ gScaleMode = PHO_SCALE_NORMAL
     /\ <<target.w, target.h>> # CurAfter(target.degrees)) =>
        IF FitsMonitor(target.degrees)
        THEN <<target.w, target.h>> = TrueAfter(target.degrees)
        ELSE ShrunkToMonitor(target.degrees, target.w, target.h)

\* The target of the 4000x3000 image on the 1920x1080 monitor has been
\* computed in mode Normal, and is 1440x1080.
C17_Witness ==
    /\ target # NoTarget
    /\ gScaleMode = PHO_SCALE_NORMAL
    /\ TrueSize(images[1]) = <<4000, 3000>>
    /\ <<gMonitorWidth, gMonitorHeight>> = <<1920, 1080>>
    /\ target.degrees = 0
    /\ <<target.w, target.h>> = <<1440, 1080>>
    /\ <<target.w, target.h>> # CurAfter(0)

\* A sharper case of C17: the 2272x1704 image on the 1440x900 monitor,
\* whose more constrained axis is the height.
C17_PhotographFillsMonitor ==
    (/\ target # NoTarget
     /\ gScaleMode = PHO_SCALE_NORMAL
     /\ TrueSize(images[1]) = <<2272, 1704>>
     /\ target.degrees = 0
     /\ <<target.w, target.h>> # CurAfter(0)) =>
        <<target.w, target.h>> = <<1200, 900>>

\* A quarter turn asked of ScaleAndRotate.
QuarterTurn(e) == e.arg \in {90, 270, -90}

\* The buffer of the record under the cursor is at the record's true size
\* and the scale mode asks for that size: FullSize, or Normal with ratio
\* 1.0 and a true size within the monitor whichever way it is turned.
NoRescaleNeeded ==
    /\ gCurImage # 0
    /\ ~gImage.null
    /\ <<gImage.width, gImage.height>> = TrueSize(images[gCurImage])
    /\ <<images[gCurImage].curWidth, images[gCurImage].curHeight>>
          = TrueSize(images[gCurImage])
    /\ \/ gScaleMode = PHO_SCALE_FULLSIZE
       \/ /\ gScaleMode = PHO_SCALE_NORMAL
          /\ gScaleRatio = <<1, 1>>
          /\ gImage.width <= gMonitorWidth
          /\ gImage.width <= gMonitorHeight
          /\ gImage.height <= gMonitorWidth
          /\ gImage.height <= gMonitorHeight

\* C18: a successful ScaleAndRotate(record, 90) or (record, 270)
\* replaces the live buffer by one whose width is the previous buffer's
\* height and whose height is the previous buffer's width, also when the
\* buffer is at the true size and no rescale is needed.
C18_QuarterTurnSwapsBuffer ==
    [][(/\ Succeeded(ev')
        /\ QuarterTurn(ev')
        /\ NoRescaleNeeded) =>
            /\ ~gImage'.null
            /\ gImage'.width = gImage.height
            /\ gImage'.height = gImage.width]_vars

\* A quarter turn of a buffer that is not square has succeeded.
C18_Witness ==
    /\ Succeeded(ev)
    /\ QuarterTurn(ev)
    /\ gScaleMode = PHO_SCALE_FULLSIZE
    /\ ~ev.reloaded
    /\ ~gImage.null
    /\ gImage.width # gImage.height

\* The events in which ScaleAndRotate was called on the record under the
\* cursor and reported no failure: a rotation, a redisplay, an advance, a
\* retreat, and a removal, which loads the record that takes the place of
\* the removed one.
EndsInScaleAndRotate(e) ==
    /\ e.scaled
    /\ ~e.scaleErr
    /\ ~e.rotErr
    /\ ~e.crashed

\* C19: after every successful return of ScaleAndRotate, and so of an
\* advance, a retreat and the reload after a removal, the curWidth and
\* curHeight of the record under the cursor are the width and height of
\* the live buffer, whichever path was taken.
C19_CurSizeIsBufferSize ==
    (/\ EndsInScaleAndRotate(ev)
     /\ gScaleMode \in {set[1] : set \in ScaleSettings}
                        \ {"PHO_SCALE_BOGUS"}
     /\ session = "running"
     /\ gCurImage # 0
     /\ ~images[gCurImage].freed
     /\ ~gImage.null) =>
        /\ images[gCurImage].curWidth = gImage.width
        /\ images[gCurImage].curHeight = gImage.height

\* A rotation that took the reload path and rotated first has returned
\* with curWidth and curHeight the width and height of the buffer.
C19_Witness ==
    /\ Succeeded(ev)
    /\ ev.reloaded
    /\ ev.rotFirst
    /\ ~gImage.null
    /\ images[gCurImage].curWidth = gImage.width
    /\ images[gCurImage].curHeight = gImage.height

\* The locals of ScaleAndRotate(gCurImage, d) when it decides whether to
\* reload: the target and the true and current sizes, all exchanged for a
\* quarter turn.
Deciding(d) ==
    ScaleAndRotateTarget(
      ScaleAndRotateSwap(ScaleAndRotateLocals(Machine(0, 0), gCurImage, d)))

\* The target exceeds the current size on either axis and the buffer is
\* smaller than the true size.
GettingBigger(s) ==
    /\ s.new_width > s.cur_width \/ s.new_height > s.cur_height
    /\ s.cur_width < s.true_width /\ s.cur_height < s.true_height

\* The live buffer, whose size the record holds, is smaller than the true
\* size of the record under the cursor on both axes.
SmallerThanTrue ==
    /\ ~gImage.null
    /\ gImage.width = images[gCurImage].curWidth
    /\ gImage.height = images[gCurImage].curHeight
    /\ gImage.width < images[gCurImage].trueWidth
    /\ gImage.height < images[gCurImage].trueHeight

\* The buffer after the event is larger on some axis than the buffer
\* before it as the rotation d turns it.
Enlarged(d) ==
    IF d \in {90, 270, -90}
    THEN gImage'.width > gImage.height \/ gImage'.height > gImage.width
    ELSE gImage'.width > gImage.width \/ gImage'.height > gImage.height

\* The outcome of C20: a ScaleAndRotate that leaves a buffer larger on
\* some axis than a buffer that was smaller than the true size has
\* reloaded the record.
NeverEnlargesSmallBuffer ==
    (/\ Succeeded(ev')
     /\ ~ev'.ub
     /\ SmallerThanTrue
     /\ ~gImage'.null
     /\ Enlarged(ev'.arg)) => ev'.reloaded

\* C20: whenever ScaleAndRotate finds the target larger than the current
\* size on either axis and the buffer smaller than the true size, the
\* record is first reloaded from its file, with curRot reset to 0 and the
\* rotation to do replaced by (degrees + old curRot) mod 360; the curRot
\* it ends with is that rotation. No ScaleAndRotate that did not reload
\* leaves a buffer larger than a buffer that was smaller than the true
\* size.
C20_ReloadsBeforeEnlarging ==
    [][/\ (/\ ev'.op = "rotate"
           /\ ~ev'.crashed
           /\ images[gCurImage].trueWidth # 0
           /\ GettingBigger(Deciding(ev'.arg))) =>
               /\ ev'.reloaded
               /\ Succeeded(ev') =>
                    images'[gCurImage].curRot
                      = (ev'.arg + images[gCurImage].curRot + 360) % 360
       /\ NeverEnlargesSmallBuffer]_vars

\* A rotation of a record that stood at a quarter turn has reloaded it.
C20_Witness ==
    /\ Succeeded(ev)
    /\ ev.reloaded
    /\ ev.arg = 90
    /\ images[gCurImage].curRot = 0

\* The frame of ScaleAndRotate(gCurImage, d) once it has decided whether
\* to reload, and once it has rotated first or not.
Planned(d) == ScaleAndRotateReload(Deciding(d))
RotatedFirst(d) == ScaleAndRotateFirst(Planned(d))

\* The call rotates, and it rescales.
Rotates(d) == Planned(d).degrees # 0
Rescales(d) ==
    \/ RotatedFirst(d).unrot_new_width
         # RotatedFirst(d).m.img[gCurImage].curWidth
    \/ RotatedFirst(d).unrot_new_height
         # RotatedFirst(d).m.img[gCurImage].curHeight

\* The target is larger than the current size on either axis.
TargetLarger(d) ==
    \/ Planned(d).new_width > Planned(d).cur_width
    \/ Planned(d).new_height > Planned(d).cur_height

\* The number of pixels of the buffer before the scale and of the one
\* after it.
PreScalePixels(d) == Planned(d).m.gImage.width * Planned(d).m.gImage.height
PostScalePixels(d) ==
    RotatedFirst(d).unrot_new_width * RotatedFirst(d).unrot_new_height

\* C21: a ScaleAndRotate that both rotates and rescales rotates before
\* the scale when the target is larger than the current size on either
\* axis and after the scale otherwise; the rotation is applied to the
\* smaller of the buffers before and after the scale, and exactly one
\* rotation is applied in the call.
C21_RotatesTheSmallerBuffer ==
    [][(/\ Succeeded(ev')
        /\ ~ev'.ub
        /\ Rotates(ev'.arg)
        /\ Rescales(ev'.arg)) =>
            /\ ev'.rotFirst = TargetLarger(ev'.arg)
            /\ ScaleAndRotate(Machine(0, 0), gCurImage, ev'.arg).nrot = 1
            /\ IF ev'.rotFirst
               THEN PreScalePixels(ev'.arg) <= PostScalePixels(ev'.arg)
               ELSE PostScalePixels(ev'.arg) <= PreScalePixels(ev'.arg)]_vars

\* A call has rotated first and then scaled up.
C21_Witness ==
    /\ Succeeded(ev)
    /\ ~ev.ub
    /\ ev.rotFirst
    /\ ev.arg = 90
    /\ ~gImage.null
    /\ gImage.width * gImage.height > 17 * 13

\* The record under the cursor has never been decoded, and its file
\* decodes.
Unloaded ==
    /\ gCurImage # 0
    /\ ~images[gCurImage].freed
    /\ images[gCurImage].trueWidth = 0
    /\ files[gCurImage].ok

\* What ScaleAndRotate(gCurImage, d) leaves when the record is decoded
\* before the call.
DecodedFirst(d) ==
    ScaleAndRotate(LoadImageFromFile(Machine(0, 0), gCurImage), gCurImage, d)

\* C22: ScaleAndRotate on a record whose trueWidth and trueHeight are
\* still 0 decodes the record and computes the target from the decoded
\* size: on return no scale has failed, the record holds its decoded true
\* size and its current size is the one the same call leaves on the
\* record once decoded.
C22_FirstViewUsesDecodedSize ==
    [][(/\ Unloaded
        /\ ev'.op \in {"rotate", "show"}
        /\ ~ev'.crashed) =>
            /\ ~ev'.scaleErr
            /\ images'[gCurImage].trueWidth # 0
            /\ images'[gCurImage].curWidth
                 = DecodedFirst(ev'.arg).img[gCurImage].curWidth
            /\ images'[gCurImage].curHeight
                 = DecodedFirst(ev'.arg).img[gCurImage].curHeight]_vars

\* ScaleAndRotate has been called on a record that had not been decoded
\* and has decoded it: the buffer is the decoded one, and the scale to the
\* target was refused.
C22_Witness ==
    /\ ev.op \in {"rotate", "show"}
    /\ ev.scaled
    /\ ev.scaleErr
    /\ gCurImage # 0
    /\ TrueSize(images[gCurImage]) = <<17, 13>>
    /\ ~gImage.null
    /\ <<gImage.width, gImage.height>> = <<17, 13>>

\* The record the cursor is set on when r is removed, and the anchor
\* afterwards.
CursorAfter(r) ==
    IF images[r].next = gFirstImage THEN images[r].prev ELSE images[r].next
AnchorAfter(r) == IF r = gFirstImage THEN images[r].next ELSE gFirstImage

\* No record of the list leads to r by next or by prev.
Unreachable(img, r) ==
    /\ r \notin ListRecs(img)
    /\ \A x \in ListRecs(img) : img[x].next # r /\ img[x].prev # r

\* The record under the cursor has been decoded and is displayed.
Displayed ==
    /\ gCurImage # 0
    /\ files[gCurImage].ok
    /\ ~gImage.null
    /\ TrueSize(images[gCurImage])
         = <<files[gCurImage].width, files[gCurImage].height>>

\* The cursor went j records on from x, over records that do not decode,
\* without coming to the anchor.
SkippedFrom(x, j) ==
    /\ gCurImage' = Follow(images', x, j)
    /\ \A i \in 0..(j - 1) :
         /\ ~files'[Follow(images', x, i)].ok
         /\ Follow(images', x, i + 1) # gFirstImage'

\* C23 as stated: after a successful remove(r) from a list of three or
\* more records the cursor is r.prev when r.next was the anchor and r.next
\* otherwise, the anchor is r.next when r was the anchor, r is not
\* reachable any more, and the record under the cursor is reloaded and
\* displayed.
C23_CursorAfterRemove ==
    [][(ev'.op = "delete" /\ Cardinality(ListRecs(images)) >= 3) =>
         /\ ~ev'.crashed
         /\ gCurImage' = CursorAfter(ev'.arg)
         /\ gFirstImage' = AnchorAfter(ev'.arg)
         /\ Unreachable(images', ev'.arg)
         /\ ev'.loads >= 1
         /\ Displayed']_vars

\* C23 amended: the anchor and the links are as stated; the record
\* r.prev or r.next is loaded, and when it decodes the cursor is on it and
\* it is displayed; when it does not decode the cursor goes on as
\* NextImage does, over the records that do not decode, to the first that
\* does, which is displayed, or to the last record of the list with
\* nothing displayed.
C23_CursorAfterRemoveSkips ==
    [][(ev'.op = "delete" /\ Cardinality(ListRecs(images)) >= 3) =>
         /\ ~ev'.crashed
         /\ gFirstImage' = AnchorAfter(ev'.arg)
         /\ Unreachable(images', ev'.arg)
         /\ ev'.loads >= 1
         /\ files[CursorAfter(ev'.arg)].ok =>
              gCurImage' = CursorAfter(ev'.arg) /\ Displayed'
         /\ \E j \in 0..MaxRecs : SkippedFrom(CursorAfter(ev'.arg), j)
         /\ IF ev'.ret = 0 THEN Displayed'
            ELSE /\ ~files'[gCurImage'].ok
                 /\ gImage'.null
                 /\ images'[gCurImage'].next = gFirstImage']_vars

\* The last record of a list of three was removed, and the cursor is on
\* the record before it.
C23_Witness ==
    /\ ev.op = "delete"
    /\ session = "running"
    /\ Cardinality(ListRecs(images)) = 2
    /\ ev.arg # gFirstImage
    /\ gCurImage # gFirstImage
    /\ images[gCurImage].next = gFirstImage
    /\ Displayed

\* The cursor has gone to another record, which was loaded at once.
CameOnto(e) ==
    /\ e.op \in {"next", "prev"}
    /\ e.ret = 0
    /\ e.loads = 1
    /\ ~e.crashed

Scaled(d) == ScaleAndRotateScale(RotatedFirst(d))
BeforeRotateLast(d) ==
    [Scaled(d).m EXCEPT !.img[gCurImage].curWidth = Scaled(d).cur_width,
                        !.img[gCurImage].curHeight = Scaled(d).cur_height]

\* RotateImage looks at the buffer of machine m: the record's curWidth and
\* curHeight are the buffer's width and height.
SizesAgree(m) ==
    ~m.gImage.null =>
        /\ m.img[gCurImage].curWidth = m.gImage.width
        /\ m.img[gCurImage].curHeight = m.gImage.height

\* C25: at every call of RotateImage made by ScaleAndRotate, before the
\* scale or after it, the record's curWidth and curHeight are the width
\* and height of the buffer that is rotated, so that no pixel is read
\* outside the old buffer or written outside the new one.
C25_RotatesWithinBuffer ==
    [][ev'.op = "rotate" =>
         /\ (Rotates(ev'.arg) /\ TargetLarger(ev'.arg)) =>
                SizesAgree(Planned(ev'.arg).m)
         /\ (~Scaled(ev'.arg).done /\ Scaled(ev'.arg).degrees # 0) =>
                SizesAgree(BeforeRotateLast(ev'.arg))]_vars

\* A quarter turn made after a scale, on a buffer of the size the record
\* holds, has returned.
C25_Witness ==
    /\ Succeeded(ev)
    /\ ~ev.ub
    /\ ~ev.rotFirst
    /\ ~ev.reloaded
    /\ QuarterTurn(ev)
    /\ ~gImage.null
    /\ <<gImage.width, gImage.height>> = <<9, 12>>

\* The decoded size of the file of record r as curRot turns it.
DecodedAsTurned(r) ==
    IF images[r].curRot \in {90, 270}
    THEN <<files[r].height, files[r].width>>
    ELSE <<files[r].width, files[r].height>>

\* C26: after every successful ScaleAndRotate, the reload path with a
\* rotation included, the record's trueWidth and trueHeight are the
\* decoded width and height when curRot is 0 or 180 and the decoded height
\* and width when curRot is 90 or 270.  Calls whose behaviour is undefined
\* are left out.
C26_TrueSizeFollowsCurRot ==
    (/\ Succeeded(ev)
     /\ ~ev.ub
     /\ session = "running"
     /\ gCurImage # 0
     /\ files[gCurImage].ok) =>
        TrueSize(images[gCurImage]) = DecodedAsTurned(gCurImage)

\* A call that reloaded the record and turned it upside down has
\* returned, with the true size the decoded one.
C26_Witness ==
    /\ Succeeded(ev)
    /\ ev.reloaded
    /\ ~ev.ub
    /\ images[gCurImage].curRot = 180
    /\ TrueSize(images[gCurImage]) = <<17, 13>>

\* C27: gPendingTimeout is set only while a callback is outstanding: once
\* the armed callback has fired, with the delay at zero included, the flag
\* is clear, and a NextImage that displays an image with the delay greater
\* than zero and no callback outstanding arms one.
C27_PendingOnlyWhileOutstanding ==
    /\ []((session = "running" /\ gPendingTimeout # 0) => timeouts > 0)
    /\ [][(/\ ev'.op = "next"
           /\ ev'.ret = 0
           /\ session' = "running"
           /\ gDelaySeconds > 0
           /\ timeouts = 0) => ev'.armed]_vars

\* The delay is greater than zero again after a callback fired at zero,
\* and a NextImage has displayed an image.
C27_Witness ==
    /\ ev.op = "next"
    /\ ev.ret = 0
    /\ session = "running"
    /\ gDelaySeconds > 0
    /\ gPendingTimeout # 0
    /\ timeouts = 0

====
